---- MODULE Spec2Model ----
(***************************************************************************)
(* The keyboard dispatcher of webmacs (src/webmacs/keyboardhandler.py):    *)
(* KeyEater, the key-sequence state machine, with the module-level         *)
(* accessors that read and write it.                                       *)
(***************************************************************************)
EXTENDS Integers, Sequences, FiniteSets, TLC

VARIABLES
    keypresses,         \* KeyEater._keypresses: the pending chord
    prefix_arg,         \* KeyEater._prefix_arg: None | int | 1-tuple
    reset_prefix_arg,   \* KeyEater._reset_prefix_arg: the deferred-reset flag
    local_key_map,      \* KeyEater._local_key_map: a keymap or None
    use_global_keymap,  \* KeyEater._use_global_keymap
    current_obj,        \* KeyEater.current_obj: weak reference to the event's object
    lastOp,             \* the operation that produced this state
    lastEv,             \* the event given to the last event_filter call
    path,               \* the branch of _handle_keypress the last call took
    ret,                \* what the last event_filter call returned
    hk_ret,             \* what the last _handle_keypress call returned
    called,             \* the _call_command calls of the last event_filter call
    queried,            \* the keymap.lookup calls of the last event_filter call
    pressed,            \* the keys fed since the pending chord was last empty
    restarted,          \* a universal key emptied the chord within `pressed`
    ucount,             \* consecutive universal-key presses, from no multiplier
    read,               \* what the last current_prefix_arg() call returned
    views,              \* LocalKeymapSetter._views
    minibuffer_inputs,  \* LocalKeymapSetter._minibuffer_inputs
    destroyed,          \* the views and inputs the toolkit has destroyed
    popup_visible,      \* input.popup().isVisible()
    input_has_focus,    \* window.minibuffer().input().hasFocus()
    current_web_view,   \* window.current_web_view()
    lastObj,            \* the object the last LocalKeymapSetter call was about
    lastArg,            \* its event type, or the enabled flag
    raised              \* the error the last LocalKeymapSetter call raised

dispatcher == <<keypresses, prefix_arg, reset_prefix_arg, local_key_map,
                use_global_keymap, current_obj>>
observed == <<lastOp, lastEv, path, ret, hk_ret, called, queried, pressed,
              restarted, ucount, read>>
switcher == <<views, minibuffer_inputs, destroyed, popup_visible,
              input_has_focus, current_web_view, lastObj, lastArg, raised>>
vars == <<keypresses, prefix_arg, reset_prefix_arg, local_key_map,
          use_global_keymap, current_obj, lastOp, lastEv, path, ret, hk_ret,
          called, queried, pressed, restarted, ucount, read,
          views, minibuffer_inputs, destroyed, popup_visible,
          input_has_focus, current_web_view, lastObj, lastArg, raised>>

\* ------------------------------------------------------------------ bounds

\* longest pending chord, and longest run of keys fed since it was empty
MaxLen == 4
\* largest prefix-argument value
MaxPrefix == 64

\* --------------------------------------------------------------- key presses

None == "None"

KeyPress(key, mods) == [key |-> key, mods |-> mods]

NoKey == KeyPress(None, {})

\* KeyPress.from_str("C-u")
universal_key == KeyPress("Key_U", {"C"})

Kg == KeyPress("Key_G", {})
Kx == KeyPress("Key_X", {})
K1 == KeyPress("Key_1", {})
K2 == KeyPress("Key_2", {})
CK1 == KeyPress("Key_1", {"C"})

Keys == {universal_key, Kg, Kx, K1, K2, CK1}

\* a key event for each key press, and one event that is no key press
\* (a press of a modifier key alone)
ShiftOnly == [key |-> "Key_Shift", mods |-> {}]

Events == Keys \cup {ShiftOnly}

\* KeyPress.from_qevent: the key press of an event, None when it has none
from_qevent(event) ==
    IF event.key \in {"Key_Shift", "Key_Control", "Key_Alt", "Key_Meta"} THEN NoKey
    ELSE KeyPress(event.key, event.mods)

has_any_modifier(keypress) == keypress.mods # {}

\* the objects that receive key events
Objs == {"view", "input"}

\* ------------------------------------------------------- keymaps, commands

\* a command reference: a name to resolve in the registry, or a callable
Name(n) == [kind |-> "str", v |-> n]
Callable(f) == [kind |-> "callable", v |-> f]

\* COMMANDS, the registry of named commands
COMMANDS == {"scroll-top", "digit-one"}

Binding(seq, command) == [seq |-> seq, command |-> command]

\* global_key_map()
GlobalKeymap ==
    { Binding(<<Kg, Kg>>, Name("scroll-top")),
      Binding(<<Kg, universal_key, Kx>>, Callable("f_global")),
      Binding(<<K1>>, Name("digit-one")) }

\* the keymap of a first view: it binds the universal key itself, and "g",
\* which the global keymap holds as a prefix
ViewAKeymap ==
    { Binding(<<universal_key>>, Callable("f_universal")),
      Binding(<<Kg>>, Callable("f_A")) }

\* the keymap of a second view: it binds "g g" as the global keymap does, and
\* "x" to a name the registry does not hold
ViewBKeymap ==
    { Binding(<<Kg, Kg>>, Callable("f_B")),
      Binding(<<Kx>>, Name("no-such-command")) }

LocalKeymaps == {"viewA", "viewB"}

Bindings(keymap) ==
    CASE keymap = "global" -> GlobalKeymap
      [] keymap = "viewA" -> ViewAKeymap
      [] keymap = "viewB" -> ViewBKeymap

IsStrictPrefix(s, t) ==
    /\ Len(s) < Len(t)
    /\ \A n \in 1..Len(s) : s[n] = t[n]

NoResult == [match |-> "none", command |-> Name(None)]

\* Keymap.lookup: complete with the command when the sequence is bound,
\* incomplete when it is a strict prefix of a bound sequence, else None
lookup(keymap, seq) ==
    IF \E b \in Bindings(keymap) : b.seq = seq
    THEN [match |-> "complete",
          command |-> (CHOOSE b \in Bindings(keymap) : b.seq = seq).command]
    ELSE IF \E b \in Bindings(keymap) : IsStrictPrefix(seq, b.seq)
    THEN [match |-> "partial", command |-> Name(None)]
    ELSE NoResult

\* what running a command's body can do
Outcomes == {"ok", "raised"}

\* call_command with a name run without being resolved in the registry
call_command_skips_registry(command, outcome) == outcome

\* KeyEater._call_command: a name is resolved in the registry, which raises
\* KeyError for an unknown one; then the command runs, and may raise
call_command(command, outcome) ==
    IF command.kind = "str" /\ command.v \notin COMMANDS THEN "no-such-command"
    ELSE outcome

\* ------------------------------------------------------- prefix argument

NoArg == [t |-> None, v |-> 0]
IntArg(n) == [t |-> "int", v |-> n]
TupleArg(n) == [t |-> "tuple", v |-> n]

DigitChars == <<"0", "1", "2", "3", "4", "5", "6", "7", "8", "9">>

DigitVal(c) == (CHOOSE n \in 1..10 : DigitChars[n] = c) - 1

\* the key codes of the ten digit keys
DigitKeys == <<"Key_0", "Key_1", "Key_2", "Key_3", "Key_4",
               "Key_5", "Key_6", "Key_7", "Key_8", "Key_9">>

\* str(n) of a non-negative int: its decimal digits
RECURSIVE Str(_)
Str(n) ==
    IF n < 10 THEN <<DigitChars[n + 1]>>
    ELSE Append(Str(n \div 10), DigitChars[(n % 10) + 1])

\* int(s) of a string of decimal digits
RECURSIVE ParseInt(_)
ParseInt(s) ==
    IF s = <<>> THEN 0
    ELSE 10 * ParseInt(SubSeq(s, 1, Len(s) - 1)) + DigitVal(s[Len(s)])

\* KeyEater._num_update_prefix_arg
num_update_prefix_arg(arg, numstr) ==
    IF arg.t # "int" THEN IntArg(ParseInt(<<numstr>>))
    ELSE IntArg(ParseInt(Append(Str(arg.v), numstr)))

\* the characters the loop of KeyEater.__init__ binds i to, in order
InitLoopChars == <<"1", "2", "3", "4", "5", "6", "7", "8", "9", "0">>

\* CHAR2KEY: the key code of a character
CHAR2KEY(c) == DigitKeys[DigitVal(c) + 1]

\* the variable i of KeyEater.__init__ that every lambda of
\* _allowed_universal_keys closes over: a call reads the value the loop left
closure_i == InitLoopChars[Len(InitLoopChars)]

\* KeyEater._allowed_universal_keys[key]: whether the key is in the dict, and
\* the argument its lambda passes to _num_update_prefix_arg
allowed_universal_keys(key) ==
    [found |-> \E n \in 1..Len(InitLoopChars) : CHAR2KEY(InitLoopChars[n]) = key,
     numstr |-> closure_i]

\* ------------------------------------------------------------- KeyEater

\* the fields of the KeyEater the handlers read and write
Self ==
    [keypresses |-> keypresses, prefix_arg |-> prefix_arg,
     reset_prefix_arg |-> reset_prefix_arg, local_key_map |-> local_key_map,
     use_global_keymap |-> use_global_keymap, current_obj |-> current_obj]

\* KeyEater.active_keymaps: the local keymap if set, then the global keymap
\* if enabled
active_keymaps(self) ==
    (IF self.local_key_map # None THEN <<self.local_key_map>> ELSE <<>>)
    \o (IF self.use_global_keymap THEN <<"global">> ELSE <<>>)

\* KeyEater._add_keypress
add_keypress(self, keypress) ==
    [self EXCEPT !.keypresses = Append(@, keypress)]

\* _handle_keypress, the deferred reset of the prefix argument
deferred_reset(self) ==
    IF self.reset_prefix_arg
    THEN [self EXCEPT !.reset_prefix_arg = FALSE, !.prefix_arg = NoArg]
    ELSE self

\* what a call of _handle_keypress that queried no keymap gives back
Handled(self, branch) ==
    [self |-> self, ret |-> TRUE, path |-> branch,
     called |-> <<>>, queried |-> <<>>]

\* universal_path with an integer prefix argument multiplied like a multiplier
universal_path_multiplies_int(self, keypress) ==
    LET s1 == IF self.prefix_arg.t # None
              THEN [self EXCEPT !.prefix_arg = TupleArg(self.prefix_arg.v * 4)]
              ELSE [self EXCEPT !.prefix_arg = TupleArg(4),
                                !.keypresses = <<>>]
    IN  Handled(add_keypress(s1, keypress), "universal")

\* _handle_keypress, the universal key
universal_path(self, keypress) ==
    LET s1 == IF self.prefix_arg.t = "tuple"
              THEN [self EXCEPT !.prefix_arg = TupleArg(self.prefix_arg.v * 4)]
              ELSE [self EXCEPT !.prefix_arg = TupleArg(4),
                                !.keypresses = <<>>]
    IN  Handled(add_keypress(s1, keypress), "universal")

\* extends_prefix_arg with a digit key taken whatever its modifiers
extends_prefix_arg_any_modifier(self, keypress) ==
    /\ self.prefix_arg # NoArg
    /\ allowed_universal_keys(keypress.key).found

\* _handle_keypress, whether a key extends the open prefix argument
extends_prefix_arg(self, keypress) ==
    /\ self.prefix_arg # NoArg
    /\ allowed_universal_keys(keypress.key).found
    /\ ~has_any_modifier(keypress)

\* _handle_keypress, a digit of the open prefix argument
digit_path(self, keypress) ==
    LET numstr == allowed_universal_keys(keypress.key).numstr
        s1 == [self EXCEPT
                 !.prefix_arg = num_update_prefix_arg(self.prefix_arg, numstr)]
    IN  Handled(add_keypress(s1, keypress), "digit")

\* the locals of _handle_keypress before its loop over the active keymaps
LoopStart ==
    [incomplete_keychord |-> FALSE, command_called |-> FALSE,
     called |-> <<>>, queried |-> <<>>]

\* lookup_step with command_called set inside the try block, after the call
lookup_step_error_skips_flag(acc, self, keymap, n, outcomes) ==
    LET result == lookup(keymap, self.keypresses)
        q == [keymap |-> keymap, seq |-> self.keypresses,
              match |-> result.match]
        a1 == [acc EXCEPT !.queried = Append(@, q)]
        outcome == call_command(result.command, outcomes[n])
    IN  CASE result.match = "none" -> a1
          [] result.match = "partial" ->
                [a1 EXCEPT !.incomplete_keychord = TRUE]
          [] result.match = "complete" ->
                [a1 EXCEPT
                   !.called = Append(@,
                       [command |-> result.command,
                        outcome |-> outcome,
                        prefix_arg |-> self.prefix_arg]),
                   !.command_called = @ \/ outcome = "ok"]

\* _handle_keypress, the body of the loop over the active keymaps, for the
\* n-th of them: an error of _call_command is caught and logged
lookup_step(acc, self, keymap, n, outcomes) ==
    LET result == lookup(keymap, self.keypresses)
        q == [keymap |-> keymap, seq |-> self.keypresses,
              match |-> result.match]
        a1 == [acc EXCEPT !.queried = Append(@, q)]
    IN  CASE result.match = "none" -> a1
          [] result.match = "partial" ->
                [a1 EXCEPT !.incomplete_keychord = TRUE]
          [] result.match = "complete" ->
                [a1 EXCEPT
                   !.called = Append(@,
                       [command |-> result.command,
                        outcome |-> call_command(result.command, outcomes[n]),
                        prefix_arg |-> self.prefix_arg]),
                   !.command_called = TRUE]

\* lookup_loop left as soon as a keymap's command has been called
RECURSIVE lookup_loop_stops_at_command(_, _, _, _, _)
lookup_loop_stops_at_command(acc, self, keymaps, n, outcomes) ==
    IF n > Len(keymaps) \/ acc.command_called THEN acc
    ELSE lookup_loop_stops_at_command(
             lookup_step(acc, self, keymaps[n], n, outcomes),
             self, keymaps, n + 1, outcomes)

\* _handle_keypress, the loop over the active keymaps
RECURSIVE lookup_loop(_, _, _, _, _)
lookup_loop(acc, self, keymaps, n, outcomes) ==
    IF n > Len(keymaps) THEN acc
    ELSE lookup_loop(lookup_step(acc, self, keymaps[n], n, outcomes),
                     self, keymaps, n + 1, outcomes)

\* after_lookup with the chord cleared after every lookup
after_lookup_always_clears(self, acc) ==
    LET s1 == [self EXCEPT !.keypresses = <<>>]
        s2 == IF acc.command_called
              THEN [s1 EXCEPT !.reset_prefix_arg = TRUE]
              ELSE s1
    IN  [self |-> s2, ret |-> acc.command_called \/ acc.incomplete_keychord,
         path |-> "normal", called |-> acc.called, queried |-> acc.queried]

\* after_lookup with the chord kept whenever a keymap reported it incomplete
after_lookup_keeps_incomplete(self, acc) ==
    LET s1 == IF ~acc.incomplete_keychord
              THEN [self EXCEPT !.keypresses = <<>>]
              ELSE self
        s2 == IF acc.command_called
              THEN [s1 EXCEPT !.reset_prefix_arg = TRUE]
              ELSE s1
    IN  [self |-> s2, ret |-> acc.command_called \/ acc.incomplete_keychord,
         path |-> "normal", called |-> acc.called, queried |-> acc.queried]

\* after_lookup with the chord cleared only by a command call
after_lookup_keeps_miss(self, acc) ==
    LET s1 == IF acc.command_called
              THEN [self EXCEPT !.keypresses = <<>>]
              ELSE self
        s2 == IF acc.command_called
              THEN [s1 EXCEPT !.reset_prefix_arg = TRUE]
              ELSE s1
    IN  [self |-> s2, ret |-> acc.command_called \/ acc.incomplete_keychord,
         path |-> "normal", called |-> acc.called, queried |-> acc.queried]

\* after_lookup with the prefix argument reset as soon as a command is called
after_lookup_resets_at_once(self, acc) ==
    LET s1 == IF acc.command_called \/ ~acc.incomplete_keychord
              THEN [self EXCEPT !.keypresses = <<>>]
              ELSE self
        s2 == IF acc.command_called
              THEN [s1 EXCEPT !.prefix_arg = NoArg]
              ELSE s1
    IN  [self |-> s2, ret |-> acc.command_called \/ acc.incomplete_keychord,
         path |-> "normal", called |-> acc.called, queried |-> acc.queried]

\* after_lookup with the prefix argument dropped by a full miss
after_lookup_miss_drops_prefix(self, acc) ==
    LET s1 == IF acc.command_called \/ ~acc.incomplete_keychord
              THEN [self EXCEPT !.keypresses = <<>>]
              ELSE self
        s2 == IF acc.command_called
              THEN [s1 EXCEPT !.reset_prefix_arg = TRUE]
              ELSE IF ~acc.incomplete_keychord
              THEN [s1 EXCEPT !.prefix_arg = NoArg]
              ELSE s1
    IN  [self |-> s2, ret |-> acc.command_called \/ acc.incomplete_keychord,
         path |-> "normal", called |-> acc.called, queried |-> acc.queried]

\* _handle_keypress, after the loop: the chord is cleared unless it is still
\* incomplete, and a command call arms the deferred reset
after_lookup(self, acc) ==
    LET s1 == IF acc.command_called \/ ~acc.incomplete_keychord
              THEN [self EXCEPT !.keypresses = <<>>]
              ELSE self
        s2 == IF acc.command_called
              THEN [s1 EXCEPT !.reset_prefix_arg = TRUE]
              ELSE s1
    IN  [self |-> s2, ret |-> acc.command_called \/ acc.incomplete_keychord,
         path |-> "normal", called |-> acc.called, queried |-> acc.queried]

\* _handle_keypress, the keymap lookup of the pending chord
normal_path(self, keypress, outcomes) ==
    LET s1 == add_keypress(self, keypress)
    IN  after_lookup(s1, lookup_loop(LoopStart, s1, active_keymaps(s1), 1,
                                     outcomes))

\* KeyEater._handle_keypress
handle_keypress(self, keypress, outcomes) ==
    LET s1 == deferred_reset(self)
    IN  IF keypress = universal_key THEN universal_path(s1, keypress)
        ELSE IF extends_prefix_arg(s1, keypress) THEN digit_path(s1, keypress)
        ELSE normal_path(s1, keypress, outcomes)

\* event_filter with the event's object recorded before the event is converted
event_filter_records_first(self, obj, event, outcomes) ==
    LET key == from_qevent(event)
        s1 == [self EXCEPT !.current_obj = obj]
    IN  IF key = NoKey
        THEN [self |-> s1, ret |-> "False", hk_ret |-> None,
              path |-> "nonkey", called |-> <<>>, queried |-> <<>>]
        ELSE LET r == handle_keypress(s1, key, outcomes)
             IN  [self |-> r.self,
                  ret |-> IF r.ret THEN "True" ELSE None,
                  hk_ret |-> IF r.ret THEN "True" ELSE "False",
                  path |-> r.path, called |-> r.called,
                  queried |-> r.queried]

\* KeyEater.event_filter: False for an event that is no key press, True when
\* _handle_keypress returns true, and else (falling off its end) None
event_filter(self, obj, event, outcomes) ==
    LET key == from_qevent(event)
    IN  IF key = NoKey
        THEN [self |-> self, ret |-> "False", hk_ret |-> None,
              path |-> "nonkey", called |-> <<>>, queried |-> <<>>]
        ELSE LET r == handle_keypress([self EXCEPT !.current_obj = obj],
                                      key, outcomes)
             IN  [self |-> r.self,
                  ret |-> IF r.ret THEN "True" ELSE None,
                  hk_ret |-> IF r.ret THEN "True" ELSE "False",
                  path |-> r.path, called |-> r.called,
                  queried |-> r.queried]

\* set_local_key_map with the pending chord dropped with the old keymap
set_local_key_map_restarts_chord(self, keymap) ==
    [self EXCEPT !.local_key_map = keymap, !.keypresses = <<>>]

\* KeyEater.set_local_key_map
set_local_key_map(self, keymap) == [self EXCEPT !.local_key_map = keymap]

\* KeyEater.set_global_keymap_enabled
set_global_keymap_enabled(self, enable) ==
    [self EXCEPT !.use_global_keymap = enable]

\* current_prefix_arg()
current_prefix_arg(self) == self.prefix_arg

\* ------------------------------------------------------------ the machine

\* KeyEater.__init__
Init ==
    /\ keypresses = <<>>
    /\ prefix_arg = NoArg
    /\ reset_prefix_arg = FALSE
    /\ local_key_map = None
    /\ use_global_keymap = TRUE
    /\ current_obj = None
    /\ lastOp = "init"
    /\ lastEv = NoKey
    /\ path = None
    /\ ret = None
    /\ hk_ret = None
    /\ called = <<>>
    /\ queried = <<>>
    /\ pressed = <<>>
    /\ restarted = FALSE
    /\ ucount = 0
    /\ read = NoArg
    /\ views = <<>>
    /\ minibuffer_inputs = <<>>
    /\ destroyed = {}
    /\ popup_visible = FALSE
    /\ input_has_focus = FALSE
    /\ current_web_view = "A"
    /\ lastObj = None
    /\ lastArg = None
    /\ raised = None

Becomes(self) ==
    /\ keypresses' = self.keypresses
    /\ prefix_arg' = self.prefix_arg
    /\ reset_prefix_arg' = self.reset_prefix_arg
    /\ local_key_map' = self.local_key_map
    /\ use_global_keymap' = self.use_global_keymap
    /\ current_obj' = self.current_obj

NothingObserved(op) ==
    /\ lastOp' = op
    /\ lastEv' = NoKey
    /\ path' = None
    /\ ret' = None
    /\ hk_ret' = None
    /\ called' = <<>>
    /\ queried' = <<>>
    /\ UNCHANGED <<pressed, restarted, ucount>>
    /\ UNCHANGED switcher

\* the active keymaps, by position, whose command the event would call
Calling(self, obj, event) ==
    LET q == event_filter(self, obj, event, [n \in 1..2 |-> "ok"]).queried
    IN  {n \in 1..Len(q) : q[n].match = "complete"}

\* the toolkit delivers an event to event_filter; each command it calls
\* returns or raises
EventFilter ==
    \E event \in Events, obj \in Objs :
      \E outcomes \in [Calling(Self, obj, event) -> Outcomes] :
        LET r == event_filter(Self, obj, event, outcomes)
            key == from_qevent(event)
            opened == deferred_reset(Self).prefix_arg
            isKey == r.path # "nonkey"
        IN  /\ Len(r.self.keypresses) <= MaxLen
            /\ r.self.prefix_arg.v <= MaxPrefix
            /\ isKey /\ keypresses # <<>> => Len(pressed) < MaxLen
            /\ Becomes(r.self)
            /\ lastOp' = "event_filter"
            /\ lastEv' = event
            /\ path' = r.path
            /\ ret' = r.ret
            /\ hk_ret' = r.hk_ret
            /\ called' = r.called
            /\ queried' = r.queried
            /\ pressed' = IF ~isKey THEN pressed
                          ELSE IF keypresses = <<>> THEN <<key>>
                          ELSE Append(pressed, key)
            /\ restarted' = IF ~isKey THEN restarted
                            ELSE IF keypresses = <<>> THEN FALSE
                            ELSE restarted \/ (r.path = "universal"
                                               /\ opened.t # "tuple")
            /\ ucount' = IF ~isKey THEN ucount
                         ELSE IF r.path # "universal" THEN 0
                         ELSE IF ucount > 0 \/ opened.t # "tuple"
                              THEN ucount + 1
                         ELSE 0
            /\ read' = NoArg
            /\ UNCHANGED switcher

\* a focus change sets the local keymap
SetLocalKeyMap ==
    \E keymap \in LocalKeymaps \cup {None} :
        /\ Becomes(set_local_key_map(Self, keymap))
        /\ NothingObserved("set_local_key_map")
        /\ read' = NoArg

SetGlobalKeymapEnabled ==
    \E enable \in BOOLEAN :
        /\ Becomes(set_global_keymap_enabled(Self, enable))
        /\ NothingObserved("set_global_keymap_enabled")
        /\ read' = NoArg

\* a command, or any other code, reads the prefix argument
CurrentPrefixArg ==
    /\ Becomes(Self)
    /\ NothingObserved("current_prefix_arg")
    /\ read' = current_prefix_arg(Self)

Next ==
    \/ EventFilter
    \/ SetLocalKeyMap
    \/ SetGlobalKeymapEnabled
    \/ CurrentPrefixArg

Spec == Init /\ [][Next]_vars

\* ------------------------------------------------------ LocalKeymapSetter

\* the views, and the minibuffer input of their window
Views == {"A", "B"}
Inputs == {"input"}
Objects == Views \cup Inputs

\* view.keymap(), and the keymap() of the view's buffer
view_keymap(view) == IF view = "A" THEN "viewA" ELSE "viewB"

\* buffer.content_edit_keymap() of a view's buffer
content_edit_keymap(view) == IF view = "A" THEN "editA" ELSE "editB"

\* minibuffer_input.keymap()
input_keymap(input) == "minibuffer"

\* the view or input a keymap is the keymap of
Owner(keymap) ==
    CASE keymap \in {"viewA", "editA"} -> "A"
      [] keymap \in {"viewB", "editB"} -> "B"
      [] keymap = "minibuffer" -> "input"
      [] OTHER -> None

EventTypes == {"WindowActivate", "FocusIn", "FocusOut"}

\* the fields of the LocalKeymapSetter
Setter == [views |-> views, minibuffer_inputs |-> minibuffer_inputs]

\* what the handlers read of the toolkit's objects
Toolkit ==
    [popup_visible |-> popup_visible, input_has_focus |-> input_has_focus,
     current_web_view |-> current_web_view]

\* obj in list
InList(list, obj) == \E n \in 1..Len(list) : list[n] = obj

\* list.remove(obj) of a list that holds obj: its first occurrence goes
ListRemove(list, obj) ==
    LET n == CHOOSE m \in 1..Len(list) :
                 list[m] = obj /\ \A k \in 1..(m - 1) : list[k] # obj
    IN  SubSeq(list, 1, n - 1) \o SubSeq(list, n + 1, Len(list))

\* LocalKeymapSetter.register_view
register_view(setter, view) == [setter EXCEPT !.views = Append(@, view)]

\* LocalKeymapSetter.view_destroyed: list.remove raises ValueError when the
\* list does not hold the view
view_destroyed(setter, view) ==
    IF InList(setter.views, view)
    THEN [setter |-> [setter EXCEPT !.views = ListRemove(@, view)],
          raised |-> None]
    ELSE [setter |-> setter, raised |-> "ValueError"]

\* LocalKeymapSetter.register_minibuffer_input
register_minibuffer_input(setter, input) ==
    [setter EXCEPT !.minibuffer_inputs = Append(@, input)]

\* LocalKeymapSetter._minibuffer_input_destroyed
minibuffer_input_destroyed(setter, input) ==
    IF InList(setter.minibuffer_inputs, input)
    THEN [setter |-> [setter EXCEPT
                        !.minibuffer_inputs = ListRemove(@, input)],
          raised |-> None]
    ELSE [setter |-> setter, raised |-> "ValueError"]

\* the module-level set_local_keymap
set_local_keymap(self, keymap) == set_local_key_map(self, keymap)

\* eventFilter with the activation of any object setting its keymap
eventFilter_activates_any(setter, self, toolkit, obj, t) ==
    CASE t = "WindowActivate" ->
            IF obj \in Views
            THEN set_local_keymap(self, view_keymap(obj))
            ELSE self
      [] t = "FocusIn" ->
            IF InList(setter.minibuffer_inputs, obj)
            THEN set_local_keymap(self, input_keymap(obj))
            ELSE self
      [] t = "FocusOut" ->
            IF InList(setter.minibuffer_inputs, obj) /\ ~toolkit.popup_visible
            THEN set_local_keymap(self,
                                  view_keymap(toolkit.current_web_view))
            ELSE self
      [] OTHER -> self

\* eventFilter with the popup not looked at when the input loses the focus
eventFilter_ignores_popup(setter, self, toolkit, obj, t) ==
    CASE t = "WindowActivate" ->
            IF InList(setter.views, obj)
            THEN set_local_keymap(self, view_keymap(obj))
            ELSE self
      [] t = "FocusIn" ->
            IF InList(setter.minibuffer_inputs, obj)
            THEN set_local_keymap(self, input_keymap(obj))
            ELSE self
      [] t = "FocusOut" ->
            IF InList(setter.minibuffer_inputs, obj)
            THEN set_local_keymap(self,
                                  view_keymap(toolkit.current_web_view))
            ELSE self
      [] OTHER -> self

\* LocalKeymapSetter.eventFilter: the KeyEater after it
eventFilter(setter, self, toolkit, obj, t) ==
    CASE t = "WindowActivate" ->
            IF InList(setter.views, obj)
            THEN set_local_keymap(self, view_keymap(obj))
            ELSE self
      [] t = "FocusIn" ->
            IF InList(setter.minibuffer_inputs, obj)
            THEN set_local_keymap(self, input_keymap(obj))
            ELSE self
      [] t = "FocusOut" ->
            IF InList(setter.minibuffer_inputs, obj) /\ ~toolkit.popup_visible
            THEN set_local_keymap(self,
                                  view_keymap(toolkit.current_web_view))
            ELSE self
      [] OTHER -> self

\* web_content_edit_focus_changed with the input's focus not looked at
web_content_edit_focus_changed_always_reverts(self, toolkit, enabled) ==
    IF enabled
    THEN set_local_keymap(self, content_edit_keymap(toolkit.current_web_view))
    ELSE set_local_keymap(self, view_keymap(toolkit.current_web_view))

\* LocalKeymapSetter.web_content_edit_focus_changed: the KeyEater after it
web_content_edit_focus_changed(self, toolkit, enabled) ==
    IF enabled
    THEN set_local_keymap(self, content_edit_keymap(toolkit.current_web_view))
    ELSE IF ~toolkit.input_has_focus
    THEN set_local_keymap(self, view_keymap(toolkit.current_web_view))
    ELSE self

\* a step of the LocalKeymapSetter: nothing of a key feed is observed
SetterCall(op, obj, arg, error) ==
    /\ lastOp' = op
    /\ lastObj' = obj
    /\ lastArg' = arg
    /\ raised' = error
    /\ UNCHANGED <<lastEv, path, ret, hk_ret, called, queried, pressed,
                   restarted, ucount, read>>

BecomesSetter(setter) ==
    /\ views' = setter.views
    /\ minibuffer_inputs' = setter.minibuffer_inputs

\* hooks.webview_created: a new view is registered, once
RegisterView ==
    \E view \in Views :
        /\ ~InList(views, view) /\ view \notin destroyed
        /\ BecomesSetter(register_view(Setter, view))
        /\ SetterCall("register_view", view, None, None)
        /\ UNCHANGED <<dispatcher, destroyed, popup_visible, input_has_focus,
                       current_web_view>>

\* hooks.webview_closed: a view is destroyed, or reported destroyed again;
\* the window keeps a live view, and shows it when its current view goes
ViewDestroyed ==
    \E view \in Views :
        LET r == view_destroyed(Setter, view)
            live == Views \ (destroyed \cup {view})
        IN  /\ live # {}
            /\ BecomesSetter(r.setter)
            /\ destroyed' = destroyed \cup {view}
            /\ current_web_view' = IF current_web_view \in live
                                   THEN current_web_view
                                   ELSE CHOOSE v \in live : TRUE
            /\ SetterCall("view_destroyed", view, None, r.raised)
            /\ UNCHANGED <<dispatcher, popup_visible, input_has_focus>>

\* a new minibuffer input is registered, once
RegisterMinibufferInput ==
    \E input \in Inputs :
        /\ ~InList(minibuffer_inputs, input) /\ input \notin destroyed
        /\ BecomesSetter(register_minibuffer_input(Setter, input))
        /\ SetterCall("register_minibuffer_input", input, None, None)
        /\ UNCHANGED <<dispatcher, destroyed, popup_visible, input_has_focus,
                       current_web_view>>

\* the destroyed signal of a minibuffer input
MinibufferInputDestroyed ==
    \E input \in Inputs :
        LET r == minibuffer_input_destroyed(Setter, input)
        IN  /\ BecomesSetter(r.setter)
            /\ destroyed' = destroyed \cup {input}
            /\ input_has_focus' = FALSE
            /\ SetterCall("minibuffer_input_destroyed", input, None, r.raised)
            /\ UNCHANGED <<dispatcher, popup_visible, current_web_view>>

\* the toolkit delivers an activation or focus event of an object; a focus
\* event of the live input is its gaining or losing the focus
SetterEventFilter ==
    \E obj \in Objects, t \in EventTypes :
        /\ input_has_focus' =
               IF obj \in Inputs \ destroyed /\ t = "FocusIn" THEN TRUE
               ELSE IF obj \in Inputs \ destroyed /\ t = "FocusOut" THEN FALSE
               ELSE input_has_focus
        /\ Becomes(eventFilter(Setter, Self, Toolkit, obj, t))
        /\ SetterCall("eventFilter", obj, t, None)
        /\ UNCHANGED <<views, minibuffer_inputs, destroyed, popup_visible,
                       current_web_view>>

\* the page reports that an editable element got or lost the focus
WebContentEditFocusChanged ==
    \E enabled \in BOOLEAN :
        /\ Becomes(web_content_edit_focus_changed(Self, Toolkit, enabled))
        /\ SetterCall("web_content_edit_focus_changed", "window", enabled,
                      None)
        /\ UNCHANGED <<views, minibuffer_inputs, destroyed, popup_visible,
                       input_has_focus, current_web_view>>

\* the completion popup of the input is shown or hidden
PopupShown ==
    \E visible \in BOOLEAN :
        /\ popup_visible' = visible
        /\ SetterCall("popup", "input", visible, None)
        /\ UNCHANGED <<dispatcher, views, minibuffer_inputs, destroyed,
                       input_has_focus, current_web_view>>

\* the window shows another view
CurrentWebViewChanged ==
    \E view \in Views \ destroyed :
        /\ current_web_view' = view
        /\ SetterCall("current_web_view", view, None, None)
        /\ UNCHANGED <<dispatcher, views, minibuffer_inputs, destroyed,
                       popup_visible, input_has_focus>>

SetterNext ==
    \/ RegisterView
    \/ ViewDestroyed
    \/ RegisterMinibufferInput
    \/ MinibufferInputDestroyed
    \/ SetterEventFilter
    \/ WebContentEditFocusChanged
    \/ PopupShown
    \/ CurrentWebViewChanged

\* the LocalKeymapSetter under the toolkit's focus and lifecycle events
SetterSpec == Init /\ [][SetterNext]_vars

\* ------------------------------------------------------------ properties

\* the last step fed a key press to _handle_keypress
KeyFed == lastOp = "event_filter" /\ path # "nonkey"

ActiveSet == {active_keymaps(Self)[n] : n \in 1..Len(active_keymaps(Self))}

StrictPrefixInActive(seq) ==
    \E keymap \in ActiveSet : \E b \in Bindings(keymap) :
        IsStrictPrefix(seq, b.seq)

BoundInActive(seq) ==
    \E keymap \in ActiveSet : \E b \in Bindings(keymap) : b.seq = seq

Matches(kind) == {n \in 1..Len(queried) : queried[n].match = kind}

RECURSIVE CompleteCommands(_)
CompleteCommands(q) ==
    IF q = <<>> THEN <<>>
    ELSE LET rest == CompleteCommands(SubSeq(q, 1, Len(q) - 1))
             last == q[Len(q)]
         IN  IF last.match = "complete"
             THEN Append(rest, lookup(last.keymap, last.seq).command)
             ELSE rest

CalledCommands == [n \in 1..Len(called) |-> called[n].command]

\* a complete match is dispatched and leaves the pending chord empty, also
\* beside a partial match
CompleteMatchDispatched ==
    lastOp = "event_filter" =>
        /\ CalledCommands = CompleteCommands(queried)
        /\ Matches("complete") # {} => keypresses = <<>>

\* with "g g" bound in the only active keymap: the first "g" leaves the chord
\* [g] and calls nothing, the second calls the command and empties the chord
ScrollTopScenario ==
    KeyFed /\ local_key_map = None /\ use_global_keymap =>
        /\ pressed = <<Kg>> =>
              keypresses = <<Kg>> /\ ret = "True" /\ called = <<>>
        /\ pressed = <<Kg, Kg>> =>
              /\ keypresses = <<>> /\ ret = "True"
              /\ CalledCommands = <<Name("scroll-top")>>

\* C2, as stated: a feed with a complete match calls the command and leaves
\* the chord empty, and the chord is non-empty after a feed only when some
\* active keymap reported a partial match and none a complete match.
C2_Original ==
    /\ CompleteMatchDispatched
    /\ ScrollTopScenario
    /\ lastOp = "event_filter" /\ keypresses # <<>> =>
          Matches("partial") # {} /\ Matches("complete") = {}

\* C2, amended: the second half holds of the feeds that query the keymaps;
\* a feed taken by the universal-key or the digit path queries none and
\* leaves keys pending.
C2_ChordAfterLookup ==
    /\ CompleteMatchDispatched
    /\ ScrollTopScenario
    /\ KeyFed /\ path = "normal" /\ keypresses # <<>> =>
          Matches("partial") # {} /\ Matches("complete") = {}
    /\ KeyFed /\ path # "normal" => queried = <<>>

C2_Witness ==
    /\ lastOp = "event_filter"
    /\ Matches("complete") # {} /\ Matches("partial") # {}
    /\ called # <<>> /\ keypresses = <<>>

\* C3, as stated: whenever the keys fed since the chord was empty have no
\* match in any active keymap, the chord is empty and the feed was not
\* handled.
C3_Original ==
    KeyFed /\ (\A keymap \in ActiveSet : lookup(keymap, pressed).match = "none")
        => keypresses = <<>> /\ ret # "True"

\* C3, amended: a key press that reaches the keymap lookup (it is neither
\* the universal key nor a digit of an open prefix argument) and whose chord
\* has no match in any active keymap leaves the chord empty, calls nothing
\* and is reported not handled.
C3_FullMiss ==
    [][ (/\ lastOp' = "event_filter" /\ path' = "normal"
         /\ \A keymap \in ActiveSet :
              lookup(keymap, Append(keypresses, from_qevent(lastEv'))).match
                  = "none")
        => /\ keypresses' = <<>>
           /\ ret' # "True" /\ hk_ret' = "False"
           /\ called' = <<>> ]_vars

C3_Witness ==
    /\ KeyFed /\ path = "normal" /\ Len(pressed) = 2
    /\ queried # <<>> /\ Matches("none") = 1..Len(queried)
    /\ keypresses = <<>> /\ ret = None /\ hk_ret = "False"

RECURSIVE Pow4(_)
Pow4(n) == IF n = 0 THEN 1 ELSE 4 * Pow4(n - 1)

\* C4: after N >= 1 consecutive presses of the universal key, the first on a
\* prefix argument that is absent or an integer, the prefix argument is the
\* multiplier 4^N; every feed of the universal key returns true.
C4_UniversalPower ==
    /\ ucount > 0 => prefix_arg = TupleArg(Pow4(ucount))
    /\ KeyFed /\ path = "universal" => ret = "True"

C4_Witness ==
    /\ KeyFed /\ path = "universal" /\ ucount = 3
    /\ prefix_arg = TupleArg(64) /\ ret = "True"

DigitOf(key) == (CHOOSE n \in 1..10 : DigitKeys[n] = key) - 1

\* C5: a digit key taken as a prefix digit d turns an integer prefix argument
\* n into 10 * n + d, and any other open prefix argument into d.
C5_DigitFolding ==
    [][ lastOp' = "event_filter" /\ path' = "digit" =>
          LET opened == deferred_reset(Self).prefix_arg
              d == DigitOf(lastEv'.key)
          IN  prefix_arg' = IF opened.t = "int" THEN IntArg(10 * opened.v + d)
                            ELSE IntArg(d) ]_vars

\* C6: a feed taken by the universal-key or the digit path leaves the
\* pending chord empty.
C6_NoChordAccumulation ==
    KeyFed /\ path \in {"universal", "digit"} => keypresses = <<>>

\* C7: a command called by a feed reads the prefix argument as it was when
\* the key was interpreted (the value before the feed, absent when a reset
\* was pending), and so does any reader after the feed, which arms the
\* reset; an armed reset clears the prefix argument at the start of the next
\* key press and not before; reading clears nothing.
C7_DeferredReset ==
    [][ LET opened == IF reset_prefix_arg THEN NoArg ELSE prefix_arg
            keyFed == lastOp' = "event_filter" /\ path' # "nonkey"
        IN  /\ lastOp' = "event_filter" /\ called' # <<>> =>
                  /\ \A n \in 1..Len(called') : called'[n].prefix_arg = opened
                  /\ prefix_arg' = opened
                  /\ reset_prefix_arg'
            /\ reset_prefix_arg /\ keyFed =>
                  prefix_arg' = IF path' = "universal" THEN TupleArg(4)
                                ELSE NoArg
            /\ reset_prefix_arg /\ ~keyFed =>
                  UNCHANGED <<prefix_arg, reset_prefix_arg>>
            /\ lastOp' = "current_prefix_arg" =>
                  read' = prefix_arg /\ UNCHANGED <<prefix_arg, reset_prefix_arg>>
      ]_vars

C7_Witness ==
    /\ lastOp = "event_filter" /\ called # <<>>
    /\ called[1].prefix_arg = TupleArg(4)
    /\ prefix_arg = TupleArg(4) /\ reset_prefix_arg

\* C8: a feed calls at most one command.
C8_AtMostOneCommand ==
    lastOp = "event_filter" => Len(called) <= 1

\* C9: a feed in which a called command raised ends like one in which it
\* returned: the chord is empty, the deferred reset is armed, the feed
\* returned true, and every active keymap was queried.
C9_CommandErrorCaught ==
    lastOp = "event_filter" /\ (\E n \in 1..Len(called) :
                                    called[n].outcome = "raised")
        => /\ keypresses = <<>>
           /\ reset_prefix_arg
           /\ ret = "True"
           /\ [n \in 1..Len(queried) |-> queried[n].keymap]
                  = active_keymaps(Self)

C9_Witness ==
    /\ lastOp = "event_filter"
    /\ Len(queried) = 2 /\ queried[1].match = "complete"
    /\ called[1].outcome = "raised"
    /\ keypresses = <<>> /\ reset_prefix_arg /\ ret = "True"

\* C10: feeding an event that is no key press returns False and changes
\* nothing of the dispatcher: chord, prefix argument, deferred-reset flag,
\* local keymap, global-keymap switch and redirection target.
C10_NonKeyEvent ==
    [][ lastOp' = "event_filter" /\ from_qevent(lastEv') = NoKey =>
          ret' = "False" /\ UNCHANGED dispatcher ]_vars

C10_Witness ==
    /\ lastOp = "event_filter" /\ path = "nonkey"
    /\ reset_prefix_arg /\ prefix_arg # NoArg
    /\ ret = "False"

\* the fields of the KeyEater other than the local keymap
besides_local_key_map ==
    <<keypresses, prefix_arg, reset_prefix_arg, use_global_keymap,
      current_obj>>

\* C11: an activation event of a registered view makes that view's keymap
\* the local keymap, whatever it was before (another view's keymap leaves
\* nothing behind); an activation event of an object that is no registered
\* view leaves the local keymap unchanged.
C11_ViewActivation ==
    [][ lastOp' = "eventFilter" /\ lastArg' = "WindowActivate" =>
          /\ local_key_map' = IF InList(views, lastObj')
                              THEN view_keymap(lastObj')
                              ELSE local_key_map
          /\ UNCHANGED besides_local_key_map
          /\ UNCHANGED <<views, minibuffer_inputs>> ]_vars

C11_Witness ==
    /\ lastOp = "eventFilter" /\ lastArg = "WindowActivate" /\ lastObj = "B"
    /\ InList(views, "A") /\ InList(views, "B")
    /\ local_key_map = "viewB"

\* C12: the local keymap is never the keymap of a view or minibuffer input
\* that has been destroyed.
C12_NoDestroyedOwner ==
    Owner(local_key_map) \notin destroyed

\* C13: a destruction event of a view or minibuffer input that is not
\* registered raises no error and changes neither the registries nor the
\* local keymap.
C13_UnregisteredDestruction ==
    [][ /\ (lastOp' = "view_destroyed" /\ ~InList(views, lastObj') =>
              /\ raised' = None
              /\ UNCHANGED <<views, minibuffer_inputs, local_key_map>>)
        /\ (lastOp' = "minibuffer_input_destroyed"
              /\ ~InList(minibuffer_inputs, lastObj') =>
              /\ raised' = None
              /\ UNCHANGED <<views, minibuffer_inputs, local_key_map>>)
      ]_vars

\* C17: when a registered minibuffer input loses the focus while its popup
\* is not visible, the local keymap becomes the keymap of the current view
\* of its window, whatever it was before; when the popup is visible, or the
\* object is no registered minibuffer input, it is unchanged.
C17_InputFocusOut ==
    [][ lastOp' = "eventFilter" /\ lastArg' = "FocusOut" =>
          /\ local_key_map' =
                 IF InList(minibuffer_inputs, lastObj') /\ ~popup_visible
                 THEN view_keymap(current_web_view)
                 ELSE local_key_map
          /\ UNCHANGED besides_local_key_map ]_vars

C17_Witness ==
    /\ lastOp = "eventFilter" /\ lastArg = "FocusOut" /\ lastObj = "input"
    /\ InList(minibuffer_inputs, "input") /\ ~popup_visible
    /\ current_web_view = "B" /\ local_key_map = "viewB"

\* C18: editable-content focus toggled on makes the content-edit keymap of
\* the current view the local keymap; toggled off it makes the current
\* view's keymap the local keymap when the minibuffer input does not hold
\* the focus, and leaves the local keymap unchanged when it does.
C18_EditFocus ==
    [][ lastOp' = "web_content_edit_focus_changed" =>
          /\ local_key_map' =
                 IF lastArg' THEN content_edit_keymap(current_web_view)
                 ELSE IF ~input_has_focus THEN view_keymap(current_web_view)
                 ELSE local_key_map
          /\ UNCHANGED besides_local_key_map ]_vars

C18_Witness ==
    /\ lastOp = "web_content_edit_focus_changed" /\ lastArg = FALSE
    /\ input_has_focus /\ local_key_map = "minibuffer"

\* the calls of the last feed whose command is a name the registry lacks
UnknownCalls ==
    {n \in 1..Len(called) :
        called[n].command.kind = "str" /\ called[n].command.v \notin COMMANDS}

\* C14: a complete match whose command is a name the registry lacks ends in
\* the no-such-command error, which is none of the outcomes of a command
\* body (no body runs), and only such a match does; the feed still ends with
\* the chord empty, the deferred reset armed, every active keymap queried
\* and the key reported handled, as after any command call.
C14_NoSuchCommand ==
    lastOp = "event_filter" =>
        /\ \A n \in 1..Len(called) :
              /\ n \in UnknownCalls <=> called[n].outcome = "no-such-command"
              /\ n \notin UnknownCalls => called[n].outcome \in Outcomes
        /\ "no-such-command" \notin Outcomes
        /\ UnknownCalls # {} =>
              /\ keypresses = <<>>
              /\ reset_prefix_arg
              /\ ret = "True"
              /\ [n \in 1..Len(queried) |-> queried[n].keymap]
                     = active_keymaps(Self)

C14_Witness ==
    /\ lastOp = "event_filter" /\ local_key_map = "viewB"
    /\ pressed = <<Kx>> /\ Len(queried) = 2
    /\ called = <<[command |-> Name("no-such-command"),
                   outcome |-> "no-such-command",
                   prefix_arg |-> prefix_arg]>>
    /\ keypresses = <<>> /\ reset_prefix_arg /\ ret = "True"

\* the key codes of the ten digit keys, as a set
DigitKeySet == {DigitKeys[n] : n \in 1..Len(DigitKeys)}

\* C15: a digit key pressed without modifiers while the prefix argument is
\* open (after the deferred reset was applied) is consumed as a prefix digit:
\* no keymap is queried and no command called, whatever the pending chord
\* and the bindings; a digit key pressed with a modifier, or with the prefix
\* argument absent, is looked up in every active keymap.
C15_DigitPrecedence ==
    [][ lastOp' = "event_filter" /\ from_qevent(lastEv').key \in DigitKeySet =>
          LET opened == deferred_reset(Self).prefix_arg
              keypress == from_qevent(lastEv')
          IN  IF opened # NoArg /\ keypress.mods = {}
              THEN /\ path' = "digit"
                   /\ queried' = <<>> /\ called' = <<>>
                   /\ ret' = "True"
                   /\ prefix_arg'.t = "int"
              ELSE /\ path' = "normal"
                   /\ [n \in 1..Len(queried') |-> queried'[n].keymap]
                          = active_keymaps(Self)
                   /\ prefix_arg' = opened ]_vars

C15_Witness ==
    /\ lastOp = "event_filter" /\ path = "digit" /\ lastEv = K1
    /\ pressed = <<Kg, K1>> /\ keypresses = pressed
    /\ use_global_keymap /\ lookup("global", <<K1>>).match = "complete"
    /\ queried = <<>> /\ called = <<>> /\ prefix_arg.t = "int"

\* C16: a feed that reaches the keymap lookup queries the local keymap, if
\* one is set, and then the global keymap, if it is enabled, and no other;
\* each is queried with the whole pending chord, the new key included,
\* whatever the keymaps before it reported; the commands of the complete
\* matches are called in that order.
C16_EveryKeymapQueried ==
    [][ lastOp' = "event_filter" /\ path' = "normal" =>
          LET chord == Append(keypresses, from_qevent(lastEv'))
              active ==
                  (IF local_key_map # None THEN <<local_key_map>> ELSE <<>>)
                  \o (IF use_global_keymap THEN <<"global">> ELSE <<>>)
          IN  /\ Len(queried') = Len(active)
              /\ \A n \in 1..Len(active) :
                    /\ queried'[n].keymap = active[n]
                    /\ queried'[n].seq = chord
                    /\ queried'[n].match = lookup(active[n], chord).match
              /\ [n \in 1..Len(called') |-> called'[n].command]
                     = CompleteCommands(queried') ]_vars

C16_Witness ==
    /\ lastOp = "event_filter" /\ path = "normal"
    /\ local_key_map = "viewB" /\ use_global_keymap
    /\ Len(queried) = 2
    /\ queried[1] = [keymap |-> "viewB", seq |-> <<Kg, Kg>>,
                     match |-> "complete"]
    /\ queried[2] = [keymap |-> "global", seq |-> <<Kg, Kg>>,
                     match |-> "complete"]
    /\ CalledCommands = <<Callable("f_B"), Name("scroll-top")>>

\* C19: an open prefix argument becomes absent only in a key feed that
\* found the deferred reset armed; a feed that reaches the keymap lookup
\* leaves the prefix argument as the deferred reset left it, so a full miss
\* or a partial match with no reset pending keeps it; while it is open and
\* no reset is pending, an unmodified digit key is consumed as a prefix
\* digit; the deferred reset is armed only by a feed that called a command,
\* and whenever it is armed the pending chord is empty.
C19_PrefixOutlivesMiss ==
    [][ LET keyFed == lastOp' = "event_filter" /\ path' # "nonkey"
        IN  /\ prefix_arg # NoArg /\ prefix_arg' = NoArg =>
                  reset_prefix_arg /\ keyFed
            /\ keyFed /\ path' = "normal" =>
                  prefix_arg' = (IF reset_prefix_arg THEN NoArg ELSE prefix_arg)
            /\ keyFed /\ path' = "normal" /\ called' = <<>> =>
                  ~reset_prefix_arg'
            /\ keyFed /\ prefix_arg # NoArg /\ ~reset_prefix_arg
                  /\ lastEv' \in {K1, K2} =>
                  path' = "digit" /\ prefix_arg'.t = "int"
            /\ ~reset_prefix_arg /\ reset_prefix_arg' =>
                  lastOp' = "event_filter" /\ called' # <<>>
            /\ reset_prefix_arg' => keypresses' = <<>> ]_vars

C19_Witness ==
    /\ lastOp = "event_filter" /\ path = "normal"
    /\ pressed = <<universal_key, Kx>>
    /\ queried # <<>> /\ Matches("none") = 1..Len(queried)
    /\ called = <<>> /\ keypresses = <<>>
    /\ prefix_arg = TupleArg(4) /\ ~reset_prefix_arg

\* C20: setting the local keymap or the global-keymap switch leaves the
\* pending chord, the prefix argument and the deferred-reset flag unchanged,
\* and sets nothing but the one it is about; no feed changes the local
\* keymap or the global-keymap switch, and a feed that reaches the lookup
\* queries the keymaps of the moment with the keys already pending.
C20_KeymapContextFrame ==
    [][ /\ lastOp' = "set_local_key_map" =>
              UNCHANGED <<keypresses, prefix_arg, reset_prefix_arg,
                          use_global_keymap, current_obj>>
        /\ lastOp' = "set_global_keymap_enabled" =>
              UNCHANGED <<keypresses, prefix_arg, reset_prefix_arg,
                          local_key_map, current_obj>>
        /\ lastOp' = "event_filter" =>
              /\ UNCHANGED <<local_key_map, use_global_keymap>>
              /\ \A n \in 1..Len(queried') :
                    /\ queried'[n].keymap \in {local_key_map, "global"}
                    /\ SubSeq(queried'[n].seq, 1, Len(keypresses))
                           = keypresses ]_vars

C20_Witness ==
    /\ lastOp = "event_filter" /\ path = "normal"
    /\ pressed = <<Kg, Kg>> /\ local_key_map = "viewA"
    /\ lookup("viewA", <<Kg>>).match = "complete"
    /\ queried[1] = [keymap |-> "viewA", seq |-> <<Kg, Kg>>,
                     match |-> "none"]

====
